---- MODULE Spec2Model ----
(***************************************************************************)
(* Model of get-3gpp-spec (src/src/lib.rs): the spec-number, date-filter   *)
(* and version parsers, the header locator and the listing pipeline.       *)
(*                                                                         *)
(* A Rust string is a sequence of characters; a character is a one-element *)
(* TLA+ string.  Characters outside ASCII are named by their code point    *)
(* ("U+0663"), and Utf8Bytes gives the bytes of their encoding, because   *)
(* the code measures and slices strings in bytes.                          *)
(***************************************************************************)
EXTENDS Integers, Sequences, FiniteSets, TLC

VARIABLES
    op,           \* pure functions: the function applied ("none" before the call)
    input,        \* pure functions: the argument
    result,       \* pure functions: the value returned (or the panic)
    ver_str,      \* parse_version: the local ver_str of line 147
    pc,           \* list: position in the function body
    spec_number,  \* list: argument spec_number
    release,      \* list: argument release
    date_filter,  \* list: argument date_filter
    url,          \* list: local url of line 185
    fetches,      \* number of reqwest::blocking::get calls issued
    response,     \* list: what the fetch returned: an error or an HTTP status
    body,         \* list: the listing page read from the response
    name_idx,     \* list: local name_idx
    date_idx,     \* list: local date_idx
    row,          \* list: 1-based position of the row the loop is at
    specs,        \* list: local specs
    outcome       \* list: what the call returned, or the panic

pureVars == <<op, input, result, ver_str>>
listVars == <<pc, spec_number, release, date_filter, url, fetches, response, body,
              name_idx, date_idx, row, specs, outcome>>
vars == <<op, input, result, ver_str, pc, spec_number, release, date_filter, url,
          fetches, response, body, name_idx, date_idx, row, specs, outcome>>

----------------------------------------------------------------------------
(* Characters and strings *)

DigitChars == <<"0", "1", "2", "3", "4", "5", "6", "7", "8", "9">>
LowerChars == <<"a", "b", "c", "d", "e", "f", "g", "h", "i", "j", "k", "l", "m",
                "n", "o", "p", "q", "r", "s", "t", "u", "v", "w", "x", "y", "z">>
UpperChars == <<"A", "B", "C", "D", "E", "F", "G", "H", "I", "J", "K", "L", "M",
                "N", "O", "P", "Q", "R", "S", "T", "U", "V", "W", "X", "Y", "Z">>

Range(s) == {s[k] : k \in 1..Len(s)}
IndexIn(c, t) == CHOOSE k \in 1..Len(t) : t[k] = c

IsAsciiDigit(c) == c \in Range(DigitChars)
IsLower(c) == c \in Range(LowerChars)
IsUpper(c) == c \in Range(UpperChars)
IsAsciiAlnum(c) == IsAsciiDigit(c) \/ IsLower(c) \/ IsUpper(c)
DigitVal(c) == IndexIn(c, DigitChars) - 1

\* Decimal digits outside ASCII: ARABIC-INDIC DIGIT THREE (2 bytes in UTF-8)
\* and FULLWIDTH DIGIT ONE (3 bytes).
UnicodeDigits == {"U+0663", "U+FF11"}
\* The regex crate's \d is Unicode-aware: it matches every decimal digit (Nd).
IsRegexDigit(c) == IsAsciiDigit(c) \/ c \in UnicodeDigits

\* The printable ASCII characters in code order, U+0020 to U+007E (the grave
\* accent is named by its code point).
AsciiPrintable ==
    <<" ", "!", "\"", "#", "$", "%", "&", "'", "(", ")", "*", "+", ",", "-", ".", "/",
      "0", "1", "2", "3", "4", "5", "6", "7", "8", "9", ":", ";", "<", "=", ">", "?",
      "@", "A", "B", "C", "D", "E", "F", "G", "H", "I", "J", "K", "L", "M", "N", "O",
      "P", "Q", "R", "S", "T", "U", "V", "W", "X", "Y", "Z", "[", "\\", "]", "^", "_",
      "U+0060", "a", "b", "c", "d", "e", "f", "g", "h", "i", "j", "k", "l", "m", "n", "o",
      "p", "q", "r", "s", "t", "u", "v", "w", "x", "y", "z", "{", "|", "}", "~">>
\* The ASCII control characters a text here may hold: tab, line feed, vertical
\* tab, form feed and carriage return.
AsciiControls == {"\t", "\n", "U+000B", "\f", "\r"}

\* The bytes of the UTF-8 encoding of a character (char::encode_utf8).
Utf8Bytes(c) ==
    CASE c = "\t" -> <<9>>
      [] c = "\n" -> <<10>>
      [] c = "U+000B" -> <<11>>
      [] c = "\f" -> <<12>>
      [] c = "\r" -> <<13>>
      [] c = "U+0085" -> <<194, 133>>
      [] c = "U+00A0" -> <<194, 160>>
      [] c = "U+00E9" -> <<195, 169>>
      [] c = "U+0663" -> <<217, 163>>
      [] c = "U+1680" -> <<225, 154, 128>>
      [] c = "U+2000" -> <<226, 128, 128>>
      [] c = "U+2001" -> <<226, 128, 129>>
      [] c = "U+2002" -> <<226, 128, 130>>
      [] c = "U+2003" -> <<226, 128, 131>>
      [] c = "U+2004" -> <<226, 128, 132>>
      [] c = "U+2005" -> <<226, 128, 133>>
      [] c = "U+2006" -> <<226, 128, 134>>
      [] c = "U+2007" -> <<226, 128, 135>>
      [] c = "U+2008" -> <<226, 128, 136>>
      [] c = "U+2009" -> <<226, 128, 137>>
      [] c = "U+200A" -> <<226, 128, 138>>
      [] c = "U+2028" -> <<226, 128, 168>>
      [] c = "U+2029" -> <<226, 128, 169>>
      [] c = "U+202F" -> <<226, 128, 175>>
      [] c = "U+205F" -> <<226, 129, 159>>
      [] c = "U+20AC" -> <<226, 130, 172>>
      [] c = "U+3000" -> <<227, 128, 128>>
      [] c = "U+FF11" -> <<239, 188, 145>>
      [] OTHER -> <<IndexIn(c, AsciiPrintable) + 31>>

\* Number of bytes of the UTF-8 encoding of a character (char::len_utf8).
Utf8Len(c) == Len(Utf8Bytes(c))

\* char::is_whitespace: the characters with the Unicode White_Space property.
WhiteSpace ==
    {" ", "\t", "\n", "U+000B", "\f", "\r", "U+0085", "U+00A0", "U+1680",
     "U+2000", "U+2001", "U+2002", "U+2003", "U+2004", "U+2005", "U+2006", "U+2007",
     "U+2008", "U+2009", "U+200A", "U+2028", "U+2029", "U+202F", "U+205F", "U+3000"}

RECURSIVE ByteLen(_)
ByteLen(s) == IF s = <<>> THEN 0 ELSE Utf8Len(Head(s)) + ByteLen(Tail(s))

\* str::is_char_boundary: byte offset b (0-based) starts a character or ends s.
IsCharBoundary(s, b) == \E k \in 0..Len(s) : ByteLen(SubSeq(s, 1, k)) = b

\* The number of characters in the first b bytes (b a character boundary).
CharsBefore(s, b) == CHOOSE k \in 0..Len(s) : ByteLen(SubSeq(s, 1, k)) = b

None == [kind |-> "None"]
Some(v) == [kind |-> "Some", val |-> v]
Panic == [kind |-> "Panic"]
Err(e) == [kind |-> "Err", err |-> e]

\* str::get(a..b): None unless a <= b are character boundaries of s.
StrGet(s, a, b) ==
    IF a <= b /\ IsCharBoundary(s, a) /\ IsCharBoundary(s, b)
    THEN Some(SubSeq(s, CharsBefore(s, a) + 1, CharsBefore(s, b)))
    ELSE None

StartsWith(s, p) == Len(s) >= Len(p) /\ SubSeq(s, 1, Len(p)) = p
EndsWith(s, p) == Len(s) >= Len(p) /\ SubSeq(s, Len(s) - Len(p) + 1, Len(s)) = p

\* All strings over alphabet A of length lo..hi.
StringsOver(A, lo, hi) == UNION {[1..n -> A] : n \in lo..hi}

----------------------------------------------------------------------------
(* parse_spec_number, lib.rs 32-52 *)

\* Regex ^\d{2}\.?[A-Za-z0-9]+$ (line 33) on the whole input.
SpecNumberRegexMatches(s) ==
    /\ Len(s) >= 3
    /\ IsRegexDigit(s[1]) /\ IsRegexDigit(s[2])
    /\ LET from == IF s[3] = "." THEN 4 ELSE 3
       IN  /\ from <= Len(s)
           /\ \A k \in from..Len(s) : IsAsciiAlnum(s[k])

\* &spec[0..2] and &spec[2..] index bytes and panic off a character boundary.
parse_spec_number(s) ==
    IF ~SpecNumberRegexMatches(s) THEN Err("invalid spec_number")
    ELSE IF ~IsCharBoundary(s, 2) THEN Panic
    ELSE LET cut == CharsBefore(s, 2)
             series == SubSeq(s, 1, cut)
             rest == SubSeq(s, cut + 1, Len(s))
             number == IF StartsWith(rest, <<".">>) THEN Tail(rest) ELSE rest
         IN  [kind |-> "Ok", series |-> series, number |-> number]

----------------------------------------------------------------------------
(* Month::try_from and DateFilter::from_str, lib.rs 95-142 *)

MonthNames == <<"January", "February", "March", "April", "May", "June", "July",
                "August", "September", "October", "November", "December">>

\* Mutant: the range check admits 0.
MonthTryFromFromZero(value) ==
    IF value \in 0..12 THEN [kind |-> "Ok", month |-> MonthNames[IF value = 0 THEN 1 ELSE value]]
    ELSE Err("invalid month value")

\* Month::try_from(u8), lines 98-114.
MonthTryFrom(value) ==
    IF value \in 1..12 THEN [kind |-> "Ok", month |-> MonthNames[value]]
    ELSE Err("invalid month value")

RECURSIVE DecimalValue(_)
DecimalValue(s) ==
    IF s = <<>> THEN 0
    ELSE 10 * DecimalValue(SubSeq(s, 1, Len(s) - 1)) + DigitVal(s[Len(s)])

\* A digit string without its leading zeros.
RECURSIVE StripZeros(_)
StripZeros(s) == IF s # <<>> /\ s[1] = "0" THEN StripZeros(Tail(s)) ELSE s

\* a <= b for two digit strings without leading zeros.
RECURSIVE DigitsLeq(_, _)
DigitsLeq(a, b) ==
    IF Len(a) # Len(b) THEN Len(a) < Len(b)
    ELSE IF a = <<>> THEN TRUE
    ELSE IF a[1] # b[1] THEN DigitVal(a[1]) < DigitVal(b[1])
    ELSE DigitsLeq(Tail(a), Tail(b))

U8Max == <<"2", "5", "5">>
U32Max == <<"4", "2", "9", "4", "9", "6", "7", "2", "9", "5">>

\* str::parse::<u32>() (max = U32Max) and ::<u8>() (max = U8Max): an optional
\* leading '+', then one or more ASCII digits, of a value the type can hold.
ParseUnsigned(s, max) ==
    LET digits == IF s # <<>> /\ s[1] = "+" THEN Tail(s) ELSE s
    IN  IF /\ digits # <<>>
           /\ \A k \in 1..Len(digits) : IsAsciiDigit(digits[k])
           /\ DigitsLeq(StripZeros(digits), max)
        THEN Some(DecimalValue(digits))
        ELSE None

\* Regex ^(\d{4})-(\d{2})$ (line 123) on the whole input.
DateRegexMatches(s) ==
    /\ Len(s) = 7
    /\ \A k \in {1, 2, 3, 4, 6, 7} : IsRegexDigit(s[k])
    /\ s[5] = "-"

DateFilterFromStr(s) ==
    IF ~DateRegexMatches(s) THEN Err("invalid date: must be YYYY-MM")
    ELSE LET year == ParseUnsigned(SubSeq(s, 1, 4), U32Max)
             month_num == ParseUnsigned(SubSeq(s, 6, 7), U8Max)
         IN  IF year.kind = "None" THEN Err("invalid year")
             ELSE IF month_num.kind = "None" THEN Err("invalid month")
             ELSE LET month == MonthTryFrom(month_num.val)
                  IN  IF month.kind = "Err" THEN month
                      ELSE [kind |-> "Ok", year |-> year.val, month |-> month.month]

----------------------------------------------------------------------------
(* parse_version, lib.rs 144-172 *)

\* str::split(c): the pieces of s between occurrences of c (at least one piece).
RECURSIVE Split(_, _)
Split(s, c) ==
    IF \A k \in 1..Len(s) : s[k] # c THEN <<s>>
    ELSE LET k == CHOOSE j \in 1..Len(s) :
                      s[j] = c /\ \A h \in 1..(j - 1) : s[h] # c
         IN  <<SubSeq(s, 1, k - 1)>> \o Split(SubSeq(s, k + 1, Len(s)), c)

\* Path::file_name: the last component of the path, when it is a normal one.
\* Components drops empty segments and "." segments; ".." is not a file name.
FileName(s) ==
    LET segs == SelectSeq(Split(s, "/"), LAMBDA g : g # <<>> /\ g # <<".">>)
    IN  IF segs = <<>> \/ segs[Len(segs)] = <<".", ".">> THEN None
        ELSE Some(segs[Len(segs)])

\* Mutant: only a literal ".zip" extension is removed from the file name.
FileStemZipOnly(s) ==
    LET name == FileName(s)
    IN  IF name.kind = "None" THEN None
        ELSE IF EndsWith(name.val, <<".", "z", "i", "p">>)
             THEN Some(SubSeq(name.val, 1, Len(name.val) - 4))
             ELSE name

\* Path::file_stem (line 145): the file name up to its last dot; the whole
\* name when it has no dot or its only dot is the first character.
FileStem(s) ==
    LET name == FileName(s)
    IN  IF name.kind = "None" THEN None
        ELSE LET f == name.val
                 dots == {k \in 1..Len(f) : f[k] = "."}
                 last == CHOOSE k \in dots : \A j \in dots : j <= k
             IN  IF dots = {} \/ last = 1 THEN Some(f)
                 ELSE Some(SubSeq(f, 1, last - 1))

DotZip == <<".", "z", "i", "p">>

\* str::trim_end_matches(".zip"): removes the suffix as often as it occurs.
RECURSIVE TrimEndMatchesZip(_)
TrimEndMatchesZip(s) ==
    IF EndsWith(s, DotZip) THEN TrimEndMatchesZip(SubSeq(s, 1, Len(s) - Len(DotZip)))
    ELSE s

\* Lines 145-147: the local ver_str, None when the path has no file name.
VersionToken(filename) ==
    LET stem == FileStem(filename)
    IN  IF stem.kind = "None" THEN None
        ELSE LET parts == Split(stem.val, "-")
             IN  Some(TrimEndMatchesZip(parts[Len(parts)]))

\* The closure to_digit of lines 151-158.
to_digit(c) ==
    CASE IsAsciiDigit(c) -> Some(DigitVal(c))
      [] IsLower(c) -> Some(IndexIn(c, LowerChars) - 1 + 10)
      [] IsUpper(c) -> Some(IndexIn(c, UpperChars) - 1 + 10)
      [] OTHER -> None

Version(major, minor, editorial) ==
    [major |-> major, minor |-> minor, editorial |-> editorial]

\* Lines 149-164: ver_str.len() = 3 bytes.  chars[k] panics past the end of
\* chars; the fields are evaluated in order and ? returns at the first None.
DecodeBase36(tok) ==
    LET chars == tok
        field(k) == IF k > Len(chars) THEN Panic ELSE to_digit(chars[k])
    IN  IF field(1).kind # "Some" THEN field(1)
        ELSE IF field(2).kind # "Some" THEN field(2)
        ELSE IF field(3).kind # "Some" THEN field(3)
        ELSE Some(Version(field(1).val, field(2).val, field(3).val))

\* Lines 165-169: ver_str.len() = 6 bytes.
DecodeDecimal(tok) ==
    LET group(a, b) ==
            LET g == StrGet(tok, a, b)
            IN  IF g.kind = "None" THEN None ELSE ParseUnsigned(g.val, U32Max)
    IN  IF group(0, 2).kind = "None" \/ group(2, 4).kind = "None"
           \/ group(4, 6).kind = "None"
        THEN None
        ELSE Some(Version(group(0, 2).val, group(2, 4).val, group(4, 6).val))

\* Lines 148-171: dispatch on the length of ver_str in bytes.
DecodeToken(tok) ==
    CASE ByteLen(tok) = 3 -> DecodeBase36(tok)
      [] ByteLen(tok) = 6 -> DecodeDecimal(tok)
      [] OTHER -> None

parse_version(filename) ==
    LET tok == VersionToken(filename)
    IN  IF tok.kind = "None" THEN None ELSE DecodeToken(tok.val)

----------------------------------------------------------------------------
(* find_header_indexes, lib.rs 273-294 *)

\* char::to_lowercase on the characters modelled.
ToLowerChar(c) == IF IsUpper(c) THEN LowerChars[IndexIn(c, UpperChars)] ELSE c
ToLower(s) == [k \in 1..Len(s) |-> ToLowerChar(s[k])]

\* str::contains(needle).
Contains(s, needle) ==
    \E k \in 1..(Len(s) - Len(needle) + 1) : SubSeq(s, k, k + Len(needle) - 1) = needle

NameWord == <<"n", "a", "m", "e">>
DateWord == <<"d", "a", "t", "e">>

\* Mutant: the is_none() guards are missing, so the last match wins.
HeaderStepLastWins(idx, text, i) ==
    LET lower == ToLower(text)
    IN  << IF Contains(lower, NameWord) THEN Some(i) ELSE idx[1],
           IF Contains(lower, DateWord) THEN Some(i) ELSE idx[2] >>

\* One iteration of the loop of lines 280-288 on cell text `text` at 0-based
\* index i; idx is the pair <<name_idx, date_idx>> of Options.
HeaderStep(idx, text, i) ==
    LET lower == ToLower(text)
    IN  << IF idx[1].kind = "None" /\ Contains(lower, NameWord) THEN Some(i) ELSE idx[1],
           IF idx[2].kind = "None" /\ Contains(lower, DateWord) THEN Some(i) ELSE idx[2] >>

\* The loop over the first n header cells.
RECURSIVE HeaderScan(_, _)
HeaderScan(cells, n) ==
    IF n = 0 THEN <<None, None>>
    ELSE HeaderStep(HeaderScan(cells, n - 1), cells[n], n - 1)

\* cells: the flattened texts of the "thead > tr > th" elements in document order.
find_header_indexes(cells) ==
    LET idx == HeaderScan(cells, Len(cells))
    IN  IF idx[1].kind = "Some" /\ idx[2].kind = "Some"
        THEN [kind |-> "Ok", name |-> idx[1].val, date |-> idx[2].val]
        ELSE Err("failed to find 'name' and 'date' columns")

----------------------------------------------------------------------------
(* The pure functions applied to bounded inputs *)

MaxSpecLen == 4      \* longest spec-number input
MaxMonthLen == 2     \* longest month part of a date-filter input
MaxTokLen == 6       \* longest plain version token of a file name
MaxCols == 5         \* most header cells

Pending == [kind |-> "Pending"]

SpecNumberAlphabet == {"2", "3", "a", "Z", ".", "-", "U+0663", "U+FF11"}
SpecNumberInputs == StringsOver(SpecNumberAlphabet, 0, MaxSpecLen)

YearParts == {<<"2", "0", "2", "3">>, <<"0", "0", "0", "7">>, <<"2", "3">>,
              <<"2", "0", "2", "3", "4">>, <<"2", "0", "2", "a">>,
              <<"U+0663", "0", "2", "3">>, <<>>}
DateSeparators == {<<"-">>, <<"/">>, <<>>}
MonthParts == StringsOver({"0", "1", "2", "3", "7", "9", "a", "U+0663"}, 0, MaxMonthLen)
DateInputs == {y \o p \o m : y \in YearParts, p \in DateSeparators, m \in MonthParts}

NamePrefixes == {<<>>, <<"a", "-">>, <<"d", "/">>, <<"d", "/", "a", "-", "b", "-">>,
                 <<"a", ".", "b", "-">>}
NameSuffixes == {<<>>, DotZip, <<".", "Z", "I", "P">>, DotZip \o DotZip,
                 <<".", "t", "x", "t">>, <<"/">>}
DecimalGroups == {<<"0", "5">>, <<"1", "7">>, <<"+", "1">>, <<"1", "+">>,
                  <<"a", "1">>, <<"1", "U+00E9">>}
VersionTokens ==
    StringsOver({"1", "g", "Z", "+", ".", "U+00E9", "U+20AC"}, 0, 3)
    \cup {a \o b \o c : a \in DecimalGroups, b \in DecimalGroups, c \in DecimalGroups}
    \cup StringsOver({"1", "a"}, 4, MaxTokLen)
VersionInputs ==
    {p \o t \o x : p \in NamePrefixes, t \in VersionTokens, x \in NameSuffixes}

SortByName == <<"s", "o", "r", "t", " ", "b", "y", " ", "n", "a", "m", "e">>
SortByDate == <<"s", "o", "r", "t", " ", "b", "y", " ", "d", "a", "t", "e">>
SortBySize == <<"s", "o", "r", "t", " ", "b", "y", " ", "s", "i", "z", "e">>
HeaderCells == {<<>>, SortByName, SortByDate, SortBySize, <<"N", "A", "M", "E">>,
                <<"U", "p", "d", "a", "t", "e", " ", "N", "a", "m", "e">>}
HeaderInputs == StringsOver(HeaderCells, 0, MaxCols)

\* The listing variables while no list call is modelled.
ListIdle ==
    /\ pc = "idle" /\ spec_number = None /\ release = None /\ date_filter = None
    /\ url = None /\ fetches = 0 /\ response = None /\ body = None
    /\ name_idx = 0 /\ date_idx = 0 /\ row = 0 /\ specs = <<>> /\ outcome = Pending

InitPure ==
    /\ \/ op = "parse_spec_number" /\ input \in SpecNumberInputs
       \/ op = "DateFilter::from_str" /\ input \in DateInputs
       \/ op = "parse_version" /\ input \in VersionInputs
       \/ op = "find_header_indexes" /\ input \in HeaderInputs
    /\ result = Pending
    /\ ver_str = None
    /\ ListIdle

CallParseSpecNumber ==
    /\ op = "parse_spec_number" /\ result = Pending
    /\ result' = parse_spec_number(input)
    /\ UNCHANGED <<op, input, ver_str>>
    /\ UNCHANGED listVars

CallDateFilterFromStr ==
    /\ op = "DateFilter::from_str" /\ result = Pending
    /\ result' = DateFilterFromStr(input)
    /\ UNCHANGED <<op, input, ver_str>>
    /\ UNCHANGED listVars

CallParseVersion ==
    /\ op = "parse_version" /\ result = Pending
    /\ ver_str' = VersionToken(input)
    /\ result' = parse_version(input)
    /\ UNCHANGED <<op, input>>
    /\ UNCHANGED listVars

CallFindHeaderIndexes ==
    /\ op = "find_header_indexes" /\ result = Pending
    /\ result' = find_header_indexes(input)
    /\ UNCHANGED <<op, input, ver_str>>
    /\ UNCHANGED listVars

NextPure ==
    \/ CallParseSpecNumber
    \/ CallDateFilterFromStr
    \/ CallParseVersion
    \/ CallFindHeaderIndexes

SpecPure == InitPure /\ [][NextPure]_vars

----------------------------------------------------------------------------
(* Claims about the pure functions, checked under SpecPure *)

Returned(f) == op = f /\ result # Pending

\* The grammar of the claim: two ASCII digits, d = 1 for the optional dot,
\* then one or more ASCII alphanumerics.
AsciiSpecNumber(s, d) ==
    /\ Len(s) >= 3 + d
    /\ IsAsciiDigit(s[1]) /\ IsAsciiDigit(s[2])
    /\ d = 1 => s[3] = "."
    /\ \A k \in (3 + d)..Len(s) : IsAsciiAlnum(s[k])

\* C4: parse_spec_number returns Ok exactly on two ASCII digits, an optional
\* single dot and one or more ASCII alphanumerics; on Ok, series is the two
\* digits and number the remainder without the dot; every other input is Err.
C4_SpecNumberGrammar ==
    Returned("parse_spec_number") =>
        IF \E d \in {0, 1} : AsciiSpecNumber(input, d)
        THEN \E d \in {0, 1} :
                /\ AsciiSpecNumber(input, d)
                /\ result = [kind |-> "Ok", series |-> SubSeq(input, 1, 2),
                             number |-> SubSeq(input, 3 + d, Len(input))]
        ELSE result.kind = "Err"

\* C8: parse_spec_number, DateFilter::from_str and parse_version return a
\* value on every input; none of them panics.
C8_ParsersNeverPanic ==
    (Returned("parse_spec_number") \/ Returned("DateFilter::from_str")
        \/ Returned("parse_version")) => result.kind # "Panic"

\* Base-36 value of a character in [0-9a-zA-Z], letters case-insensitive.
Base36Val(c) ==
    IF IsAsciiDigit(c) THEN DigitVal(c) ELSE IndexIn(ToLowerChar(c), LowerChars) + 9

\* C5: a 3-character token of [0-9a-zA-Z] decodes to the base-36 values of its
\* characters, a 6-character token of decimal digits to its three two-digit
\* values, and every other token (other characters, other lengths) to None.
C5_VersionDecoding ==
    (Returned("parse_version") /\ ver_str.kind = "Some") =>
        LET tok == ver_str.val
        IN  CASE Len(tok) = 3 /\ (\A k \in 1..3 : IsAsciiAlnum(tok[k])) ->
                    result = Some(Version(Base36Val(tok[1]), Base36Val(tok[2]),
                                          Base36Val(tok[3])))
              [] Len(tok) = 6 /\ (\A k \in 1..6 : IsAsciiDigit(tok[k])) ->
                    result = Some(Version(10 * DigitVal(tok[1]) + DigitVal(tok[2]),
                                          10 * DigitVal(tok[3]) + DigitVal(tok[4]),
                                          10 * DigitVal(tok[5]) + DigitVal(tok[6])))
              [] OTHER -> result = None

AllAsciiDigits(s) == \A k \in 1..Len(s) : IsAsciiDigit(s[k])
TwoDigitValue(s) == 10 * DigitVal(s[1]) + DigitVal(s[2])
YearValue(s) ==
    1000 * DigitVal(s[1]) + 100 * DigitVal(s[2]) + 10 * DigitVal(s[3]) + DigitVal(s[4])

\* Four ASCII digits, a hyphen and two more characters (the month part).
HasYearAndHyphen(s) ==
    Len(s) = 7 /\ AllAsciiDigits(SubSeq(s, 1, 4)) /\ s[5] = "-"
ValidMonthPart(m) == AllAsciiDigits(m) /\ TwoDigitValue(m) \in 1..12

\* C6 as stated: Ok{year, month} exactly on four digits, a hyphen and two
\* digits in 1..=12; any other month part (00, 13..99, non-numeric) fails with
\* InvalidMonth; an input malformed as a whole fails with InvalidDateFormat.
C6_DateFilterAsStated ==
    Returned("DateFilter::from_str") =>
        IF HasYearAndHyphen(input)
        THEN IF ValidMonthPart(SubSeq(input, 6, 7))
             THEN result = [kind |-> "Ok", year |-> YearValue(input),
                            month |-> MonthNames[TwoDigitValue(SubSeq(input, 6, 7))]]
             ELSE result.kind = "Err"
                  /\ result.err \in {"invalid month value", "invalid month"}
        ELSE result = Err("invalid date: must be YYYY-MM")

\* Four decimal digits, a hyphen, two decimal digits, the digits ASCII or not.
DateShape(s) ==
    Len(s) = 7 /\ s[5] = "-"
    /\ \A k \in {1, 2, 3, 4, 6, 7} : IsAsciiDigit(s[k]) \/ s[k] \in UnicodeDigits

\* C6 (amended): Ok{year, month} exactly on four ASCII digits, a hyphen and two
\* ASCII digits in 1..=12; two ASCII month digits 00 or 13..99 fail with
\* InvalidMonth; every input not of the shape "four decimal digits, hyphen, two
\* decimal digits", a non-numeric month part included, fails with
\* InvalidDateFormat; an input of that shape with a non-ASCII digit fails with
\* the number-parse error of the year, else of the month.
C6_DateFilterParsing ==
    Returned("DateFilter::from_str") =>
        CASE ~DateShape(input) -> result = Err("invalid date: must be YYYY-MM")
          [] DateShape(input) /\ ~AllAsciiDigits(SubSeq(input, 1, 4)) ->
                result = Err("invalid year")
          [] DateShape(input) /\ AllAsciiDigits(SubSeq(input, 1, 4))
                /\ ~AllAsciiDigits(SubSeq(input, 6, 7)) -> result = Err("invalid month")
          [] OTHER ->
                IF TwoDigitValue(SubSeq(input, 6, 7)) \in 1..12
                THEN result = [kind |-> "Ok", year |-> YearValue(input),
                               month |-> MonthNames[TwoDigitValue(SubSeq(input, 6, 7))]]
                ELSE result = Err("invalid month value")

\* "2023-13" has been parsed and failed with InvalidMonth.
C6_Witness ==
    /\ Returned("DateFilter::from_str")
    /\ input = <<"2", "0", "2", "3", "-", "1", "3">>
    /\ result = Err("invalid month value")

\* 0-based indexes of the header cells whose lower-cased text contains word.
CellsContaining(cells, word) ==
    {k \in 0..(Len(cells) - 1) : Contains(ToLower(cells[k + 1]), word)}
Smallest(S) == CHOOSE k \in S : \A j \in S : k <= j

\* C7: find_header_indexes returns Ok((n, d)) with n the smallest index of a
\* cell containing "name" and d the smallest index of a cell containing "date"
\* (case-insensitively, independently of each other), and HeaderNotFound
\* exactly when no cell contains "name" or no cell contains "date".
C7_HeaderLocation ==
    Returned("find_header_indexes") =>
        LET names == CellsContaining(input, NameWord)
            dates == CellsContaining(input, DateWord)
        IN  IF names # {} /\ dates # {}
            THEN result = [kind |-> "Ok", name |-> Smallest(names),
                           date |-> Smallest(dates)]
            ELSE result.kind = "Err"

\* The header of the archive site has been located at (2, 3).
C7_Witness ==
    /\ Returned("find_header_indexes")
    /\ input = <<<<>>, <<>>, SortByName, SortByDate, SortBySize>>
    /\ result = [kind |-> "Ok", name |-> 2, date |-> 3]

\* The literal suffix ".zip" removed if present, once.
StripZipOnce(s) == IF EndsWith(s, DotZip) THEN SubSeq(s, 1, Len(s) - Len(DotZip)) ELSE s
LastSegment(s) == LET parts == Split(s, "-") IN parts[Len(parts)]

\* C10 as stated: the token is the last '-' segment of the file name with the
\* literal suffix ".zip" stripped once, case-sensitively, and nothing else.
C10_TokenAsStated ==
    (Returned("parse_version") /\ FileName(input).kind = "Some") =>
        ver_str = Some(LastSegment(StripZipOnce(FileName(input).val)))

NoChar(s, c) == \A k \in 1..Len(s) : s[k] # c
\* stem is name without its final extension: name = stem.ext with ext free of
\* dots and stem not empty, or the whole name when it has no such split.
IsStemOf(stem, name) ==
    LET cuts == {k \in 2..Len(name) :
                    name[k] = "." /\ NoChar(SubSeq(name, k + 1, Len(name)), ".")}
    IN  IF cuts = {} THEN stem = name
        ELSE \E k \in cuts : stem = SubSeq(name, 1, k - 1)
\* seg is the text of stem after its last '-' (all of stem when it has none).
IsLastSegmentOf(seg, stem) ==
    /\ NoChar(seg, "-")
    /\ EndsWith(stem, seg)
    /\ Len(stem) > Len(seg) => stem[Len(stem) - Len(seg)] = "-"
\* seg is tok followed by ".zip" zero or more times, tok not ending in ".zip".
IsZipTrimmed(tok, seg) ==
    /\ ~EndsWith(tok, DotZip)
    /\ StartsWith(seg, tok)
    /\ (Len(seg) - Len(tok)) % Len(DotZip) = 0
    /\ \A k \in (Len(tok) + 1)..Len(seg) : seg[k] = DotZip[((k - Len(tok) - 1) % Len(DotZip)) + 1]

\* C10 (amended): the token is derived from the last path component by
\* removing its final extension, whatever it is (the text from its last dot,
\* unless the name has no dot or only a leading one), taking the text after
\* the last '-' of that stem, and removing every trailing ".zip" from it; a
\* path without a file name has no token and yields no Version.
C10_TokenDerivation ==
    Returned("parse_version") =>
        IF FileName(input).kind = "None"
        THEN ver_str = None /\ result = None
        ELSE /\ ver_str.kind = "Some"
             /\ \E a \in 1..(Len(input) + 1) : \E b \in (a - 1)..Len(input) :
                  \E c \in a..(b + 1) :
                    /\ IsStemOf(SubSeq(input, a, b), FileName(input).val)
                    /\ IsLastSegmentOf(SubSeq(input, c, b), SubSeq(input, a, b))
                    /\ IsZipTrimmed(ver_str.val, SubSeq(input, c, b))

\* "a-1g1.ZIP" has been parsed: the upper-case extension is gone from the
\* token, which decodes to version 1.16.1.
C10_Witness ==
    /\ Returned("parse_version")
    /\ input = <<"a", "-", "1", "g", "1", ".", "Z", "I", "P">>
    /\ ver_str = Some(<<"1", "g", "1">>)
    /\ result = Some(Version(1, 16, 1))

----------------------------------------------------------------------------
(* list, lib.rs 177-269: the listing URL and the security check *)

\* "https://www.3gpp.org": scheme and host of BASE_URL.
BaseOrigin == <<"h", "t", "t", "p", "s", ":", "/", "/", "w", "w", "w", ".", "3", "g", "p", "p", ".", "o", "r", "g">>
\* Path segments of BASE_URL, which ends in '/'.
BaseDir == <<<<"f", "t", "p">>, <<"S", "p", "e", "c", "s">>, <<"a", "r", "c", "h", "i", "v", "e">>>>

RECURSIVE JoinWith(_, _)
JoinWith(segs, sep) ==
    IF segs = <<>> THEN <<>>
    ELSE IF Len(segs) = 1 THEN segs[1]
    ELSE segs[1] \o sep \o JoinWith(Tail(segs), sep)

\* BASE_URL (line 6) = "https://www.3gpp.org/ftp/Specs/archive/".
BASE_URL == BaseOrigin \o <<"/">> \o JoinWith(BaseDir, <<"/">>) \o <<"/">>

----------------------------------------------------------------------------
(* Url::join (line 185): the url crate's parser, relative to BASE_URL *)

UrlOk(u) == [kind |-> "Ok", url |-> u]
\* A local of the parser: F applied to the value v.
Bind(v, F(_)) == F(v)
\* Text of a URL that is not computed here: what follows "file://" in a
\* "file:" URL, and a host that the IDNA mapping gives for text outside
\* ASCII.  Neither is a character, so a URL that holds one differs from every
\* text at that place.
Unparsed == "text not computed"
MappedDomain == "a mapped domain"

\* The position of the first character of s that is in set, Len(s) + 1 if none.
FirstIn(s, set) ==
    IF \E k \in 1..Len(s) : s[k] \in set
    THEN CHOOSE k \in 1..Len(s) : s[k] \in set /\ \A j \in 1..(k - 1) : s[j] \notin set
    ELSE Len(s) + 1
\* The position of the last character of s that is in set, 0 if none.
LastIn(s, set) ==
    IF \E k \in 1..Len(s) : s[k] \in set
    THEN CHOOSE k \in 1..Len(s) : s[k] \in set /\ \A j \in (k + 1)..Len(s) : s[j] \notin set
    ELSE 0
Before(s, k) == SubSeq(s, 1, k - 1)
From(s, k) == SubSeq(s, k, Len(s))

RECURSIVE SplitAny(_, _)
SplitAny(s, set) ==
    LET k == FirstIn(s, set)
    IN  IF k > Len(s) THEN <<s>> ELSE <<Before(s, k)>> \o SplitAny(From(s, k + 1), set)

RECURSIVE TrimMatches(_, _)
TrimMatches(s, set) ==
    IF s # <<>> /\ s[1] \in set THEN TrimMatches(Tail(s), set)
    ELSE IF s # <<>> /\ s[Len(s)] \in set THEN TrimMatches(SubSeq(s, 1, Len(s) - 1), set)
    ELSE s

\* The parser's Input: C0 controls and spaces are trimmed from both ends, and
\* tabs and newlines are skipped wherever they are.
UrlInput(p) ==
    SelectSeq(TrimMatches(p, AsciiControls \cup {" "}), LAMBDA c : c \notin {"\t", "\n", "\r"})

HexChars == <<"0", "1", "2", "3", "4", "5", "6", "7", "8", "9", "A", "B", "C", "D", "E", "F">>
RECURSIVE PercentBytes(_)
PercentBytes(bytes) ==
    IF bytes = <<>> THEN <<>>
    ELSE <<"%", HexChars[(Head(bytes) \div 16) + 1], HexChars[(Head(bytes) % 16) + 1]>>
             \o PercentBytes(Tail(bytes))

\* utf8_percent_encode(s, set): controls, characters outside ASCII and the
\* characters of set become %XX, byte by byte.
RECURSIVE Utf8PercentEncode(_, _)
Utf8PercentEncode(s, set) ==
    IF s = <<>> THEN <<>>
    ELSE (IF Head(s) \notin Range(AsciiPrintable) \/ Head(s) \in set
          THEN PercentBytes(Utf8Bytes(Head(s)))
          ELSE <<Head(s)>>) \o Utf8PercentEncode(Tail(s), set)

\* The url crate's percent-encode sets, beyond the controls and the characters
\* outside ASCII, which every set holds; CONTROLS holds nothing more.
FragmentSet == {" ", "\"", "<", ">", "U+0060"}
PathSet == FragmentSet \cup {"#", "?", "{", "}"}
UserinfoSet == PathSet \cup {"/", ":", ";", "=", "@", "[", "\\", "]", "^", "|"}
QuerySet == {" ", "\"", "#", "<", ">"}
SpecialQuerySet == QuerySet \cup {"'"}

\* Parser::parse_scheme succeeds: a letter, then letters, digits, '+', '-'
\* and '.', then ':'.
HasScheme(p) ==
    \E k \in 2..Len(p) :
        /\ p[k] = ":"
        /\ IsLower(p[1]) \/ IsUpper(p[1])
        /\ \A j \in 2..(k - 1) : IsAsciiAlnum(p[j]) \/ p[j] \in {"+", "-", "."}

SpecialSchemes == {<<"h", "t", "t", "p">>, <<"h", "t", "t", "p", "s">>, <<"w", "s">>,
                   <<"w", "s", "s">>, <<"f", "t", "p">>}
\* default_port(scheme).
DefaultPort(scheme) ==
    CASE scheme \in {<<"h", "t", "t", "p">>, <<"w", "s">>} -> Some(80)
      [] scheme \in {<<"h", "t", "t", "p", "s">>, <<"w", "s", "s">>} -> Some(443)
      [] scheme = <<"f", "t", "p">> -> Some(21)
      [] OTHER -> None

\* A path segment, percent-encoded, is a single-dot segment: ".", "%2e", "%2E".
IsSingleDot(g) ==
    \/ g = <<".">>
    \/ Len(g) = 3 /\ g[1] = "%" /\ g[2] = "2" /\ g[3] \in {"e", "E"}
\* A double-dot segment: two single dots, each written either way.
IsDoubleDot(g) ==
    \E k \in 1..(Len(g) - 1) : IsSingleDot(SubSeq(g, 1, k)) /\ IsSingleDot(SubSeq(g, k + 1, Len(g)))

\* Parser::parse_path on the segments todo, after the segments done: a
\* double-dot segment removes the segment before it, a single-dot segment
\* adds nothing, and either leaves a trailing '/' when it comes last.
RECURSIVE ResolveDots(_, _)
ResolveDots(done, todo) ==
    IF todo = <<>> THEN done
    ELSE LET g == Head(todo)
             last == Len(todo) = 1
             popped == IF done = <<>> THEN <<>> ELSE SubSeq(done, 1, Len(done) - 1)
         IN  CASE IsSingleDot(g) ->
                    ResolveDots(IF last THEN Append(done, <<>>) ELSE done, Tail(todo))
               [] IsDoubleDot(g) ->
                    ResolveDots(IF last THEN Append(popped, <<>>) ELSE popped, Tail(todo))
               [] OTHER -> ResolveDots(Append(done, g), Tail(todo))

\* The path ("/seg/seg...") that parse_path writes for text after the
\* segments base_segs; slashes is the set of characters that end a segment.
UrlPath(base_segs, text, slashes) ==
    LET raw == SplitAny(text, slashes)
        encoded == [k \in 1..Len(raw) |-> Utf8PercentEncode(raw[k], PathSet)]
    IN  <<"/">> \o JoinWith(ResolveDots(base_segs, encoded), <<"/">>)

\* parse_query_and_fragment on rest, which is empty or starts with '?' or '#'.
QueryAndFragment(rest, query_set) ==
    IF rest = <<>> THEN <<>>
    ELSE IF rest[1] = "#" THEN <<"#">> \o Utf8PercentEncode(Tail(rest), FragmentSet)
    ELSE LET h == FirstIn(rest, {"#"})
         IN  <<"?">> \o Utf8PercentEncode(SubSeq(rest, 2, h - 1), query_set)
                 \o (IF h > Len(rest) THEN <<>>
                     ELSE <<"#">> \o Utf8PercentEncode(From(rest, h + 1), FragmentSet))

\* Path, query and fragment of a special URL from text, the path after the
\* segments base_segs; '\' is taken as '/'.
PathQueryFragment(base_segs, text) ==
    LET e == FirstIn(text, {"?", "#"})
    IN  UrlPath(base_segs, Before(text, e), {"/", "\\"})
            \o QueryAndFragment(From(text, e), SpecialQuerySet)

RECURSIVE ToDecimal(_)
ToDecimal(n) ==
    IF n < 10 THEN <<DigitChars[n + 1]>> ELSE ToDecimal(n \div 10) \o <<DigitChars[(n % 10) + 1]>>

\* Parser::parse_port on the text between ':' and the path: ASCII digits of a
\* value that fits in u16, written without leading zeros; the scheme's
\* default port is not written.
ParsePort(text, scheme) ==
    LET digits == StripZeros(text)
    IN  IF \E k \in 1..Len(text) : ~IsAsciiDigit(text[k]) THEN Err("invalid port number")
        ELSE IF Len(digits) > 5 \/ DecimalValue(digits) > 65535 THEN Err("invalid port number")
        ELSE IF text = <<>> \/ Some(DecimalValue(digits)) = DefaultPort(scheme) THEN Some(<<>>)
        ELSE Some(<<":">> \o (IF digits = <<>> THEN <<"0">> ELSE digits))

\* parse_userinfo: the credentials before the last '@' of the authority, as
\* they are written into the URL.  An empty password drops its ':'.
Userinfo(text) ==
    LET c == FirstIn(text, {":"})
        name == Before(text, c)
        pass == From(text, c + 1)
    IN  Utf8PercentEncode(name, UserinfoSet)
            \o (IF pass # <<>> THEN <<":">> \o Utf8PercentEncode(pass, UserinfoSet) ELSE <<>>)
            \o (IF name # <<>> \/ pass # <<>> THEN <<"@">> ELSE <<>>)

\* The end of the host in parse_host: the first ':' outside square brackets.
RECURSIVE HostEnd(_, _, _)
HostEnd(s, k, inside) ==
    IF k > Len(s) THEN k
    ELSE IF s[k] = ":" /\ ~inside THEN k
    ELSE HostEnd(s, k + 1, IF s[k] = "[" THEN TRUE ELSE IF s[k] = "]" THEN FALSE ELSE inside)

IsHexDigit(c) ==
    IsAsciiDigit(c) \/ c \in {"a", "b", "c", "d", "e", "f", "A", "B", "C", "D", "E", "F"}
HexVal(c) ==
    IF IsAsciiDigit(c) THEN DigitVal(c)
    ELSE IF IsLower(c) THEN IndexIn(c, LowerChars) + 9
    ELSE IndexIn(c, UpperChars) + 9

\* Bytes that percent-decoding can produce and no character here stands for.
ControlByte == "control byte"
HighByte == "byte above 0x7F"
ByteChar(b) ==
    CASE b \in 32..126 -> AsciiPrintable[b - 31]
      [] b = 9 -> "\t"
      [] b = 10 -> "\n"
      [] b = 11 -> "U+000B"
      [] b = 12 -> "\f"
      [] b = 13 -> "\r"
      [] b > 127 -> HighByte
      [] OTHER -> ControlByte

\* percent_decode: every %XX with two hex digits becomes the byte XX.
RECURSIVE PercentDecode(_)
PercentDecode(s) ==
    IF s = <<>> THEN <<>>
    ELSE IF Len(s) >= 3 /\ s[1] = "%" /\ IsHexDigit(s[2]) /\ IsHexDigit(s[3])
         THEN <<ByteChar(16 * HexVal(s[2]) + HexVal(s[3]))>> \o PercentDecode(From(s, 4))
    ELSE <<s[1]>> \o PercentDecode(Tail(s))

\* The mapping idna::domain_to_ascii_cow gives an ASCII character of a
\* domain: letters are lower-cased.
IdnaMap(c) ==
    IF IsUpper(c) THEN LowerChars[IndexIn(c, UpperChars)] ELSE c

\* Characters a domain must not contain.
ForbiddenDomain ==
    AsciiControls \cup {ControlByte, " ", "#", "%", "/", ":", "<", ">", "?", "@", "[",
                        "\\", "]", "^", "|"}
\* Characters an opaque host must not contain.
ForbiddenHost ==
    {"\t", "\n", "\r", " ", "#", "/", ":", "<", ">", "?", "@", "[", "\\", "]", "^", "|"}

\* parse_ipv4number.  A number is held as four base-256 digits, the least
\* significant first, and over tells that it does not fit in u32.
RECURSIVE RadixValue(_, _)
RadixValue(digits, radix) ==
    IF digits = <<>> THEN [limbs |-> <<0, 0, 0, 0>>, over |-> FALSE]
    ELSE LET prev == RadixValue(SubSeq(digits, 1, Len(digits) - 1), radix)
             l1 == prev.limbs[1] * radix + HexVal(digits[Len(digits)])
             l2 == prev.limbs[2] * radix + (l1 \div 256)
             l3 == prev.limbs[3] * radix + (l2 \div 256)
             l4 == prev.limbs[4] * radix + (l3 \div 256)
         IN  [limbs |-> <<l1 % 256, l2 % 256, l3 % 256, l4 % 256>>,
              over |-> prev.over \/ l4 >= 256]

Ipv4Number(part) ==
    LET hex == StartsWith(part, <<"0", "x">>) \/ StartsWith(part, <<"0", "X">>)
        octal == ~hex /\ Len(part) >= 2 /\ part[1] = "0"
        digits == IF hex THEN From(part, 3) ELSE IF octal THEN Tail(part) ELSE part
        radix == IF hex THEN 16 ELSE IF octal THEN 8 ELSE 10
        valid == \A k \in 1..Len(digits) :
                    IF hex THEN IsHexDigit(digits[k])
                    ELSE IsAsciiDigit(digits[k]) /\ (octal => DigitVal(digits[k]) < 8)
    IN  IF part = <<>> \/ ~valid THEN [kind |-> "Err"]
        ELSE [kind |-> "Ok", num |-> RadixValue(digits, radix)]

\* ends_in_a_number: the last label, a final empty one aside, is a number.
EndsInANumber(domain) ==
    LET parts == Split(domain, ".")
        last == IF parts[Len(parts)] # <<>> THEN parts[Len(parts)]
                ELSE IF Len(parts) >= 2 THEN parts[Len(parts) - 1] ELSE <<>>
    IN  /\ last # <<>>
        /\ \/ \A k \in 1..Len(last) : IsAsciiDigit(last[k])
           \/ Ipv4Number(last).kind = "Ok"

\* parse_ipv4addr, and the address written as four decimal numbers: the last
\* number fills the bytes the ones before it leave.
ParseIpv4(domain) ==
    LET all == Split(domain, ".")
        parts == IF all[Len(all)] = <<>> THEN SubSeq(all, 1, Len(all) - 1) ELSE all
    IN  Bind([k \in 1..Len(parts) |-> Ipv4Number(parts[k])], LAMBDA nums :
            LET n == Len(nums)
                octet(j) == IF j < n THEN nums[j].num.limbs[1] ELSE nums[n].num.limbs[5 - j]
            IN  IF n > 4 \/ n = 0 THEN Err("invalid IPv4 address")
                ELSE IF \E k \in 1..n : nums[k].kind = "Err" \/ nums[k].num.over
                     THEN Err("invalid IPv4 address")
                ELSE IF \E k \in (6 - n)..4 : nums[n].num.limbs[k] # 0
                     THEN Err("invalid IPv4 address")
                ELSE IF \E j \in 1..(n - 1) : \E k \in 2..4 : nums[j].num.limbs[k] # 0
                     THEN Err("invalid IPv4 address")
                ELSE Some(JoinWith([j \in 1..4 |-> ToDecimal(octet(j))], <<".">>)))

\* parse_ipv6addr on the text between the brackets: the eight 16-bit pieces,
\* or None.  ps holds the pieces read so far and compress, when not negative,
\* the number of pieces before "::".  An IPv4 address may end the literal, as
\* two pieces: four decimal numbers up to 255, none with a leading zero.
Ipv6Pieces(s) ==
    LET Ipv4InIpv6(text) ==
            LET parts == Split(text, ".")
                wellformed(p) == /\ Len(p) \in 1..3
                                 /\ \A k \in 1..Len(p) : IsAsciiDigit(p[k])
                                 /\ Len(p) > 1 => p[1] # "0"
                                 /\ DecimalValue(p) <= 255
                num(k) == DecimalValue(parts[k])
            IN  IF Len(parts) = 4 /\ \A k \in 1..4 : wellformed(parts[k])
                THEN Some(<<num(1) * 256 + num(2), num(3) * 256 + num(4)>>)
                ELSE None
        RECURSIVE HexRun(_, _)
        HexRun(i, n) ==
            IF n < 4 /\ i + n <= Len(s) /\ IsHexDigit(s[i + n]) THEN HexRun(i, n + 1) ELSE n
        HexPiece(digits) ==
            Bind(RadixValue(digits, 16), LAMBDA r : r.limbs[1] + 256 * r.limbs[2])
        Finish(ps, compress) ==
            IF compress >= 0
            THEN Some(SubSeq(ps, 1, compress) \o [k \in 1..(8 - Len(ps)) |-> 0]
                          \o SubSeq(ps, compress + 1, Len(ps)))
            ELSE IF Len(ps) = 8 THEN Some(ps) ELSE None
        Ipv4Tail(i, ps, compress) ==
            Bind(Ipv4InIpv6(From(s, i)), LAMBDA v4 :
                IF v4 = None THEN None ELSE Finish(ps \o v4.val, compress))
        RECURSIVE Loop(_, _, _)
        Loop(i, ps, compress) ==
            IF i > Len(s) THEN Finish(ps, compress)
            ELSE IF Len(ps) = 8 THEN None
            ELSE IF s[i] = ":"
                 THEN IF compress >= 0 THEN None ELSE Loop(i + 1, Append(ps, 0), Len(ps) + 1)
            ELSE Bind(i + HexRun(i, 0), LAMBDA j :
                    IF j > Len(s) THEN Loop(j, Append(ps, HexPiece(SubSeq(s, i, j - 1))), compress)
                    ELSE IF s[j] = "."
                         THEN IF j = i \/ Len(ps) > 6 THEN None ELSE Ipv4Tail(i, ps, compress)
                    ELSE IF s[j] = ":" /\ j < Len(s)
                         THEN Loop(j + 1, Append(ps, HexPiece(SubSeq(s, i, j - 1))), compress)
                    ELSE None)
    IN  IF Len(s) < 2 THEN None
        ELSE IF s[1] = ":" THEN IF s[2] = ":" THEN Loop(3, <<0>>, 1) ELSE None
        ELSE Loop(1, <<>>, 0 - 1)

\* write_ipv6: the pieces in hexadecimal ({:x}) with ':' between them, the first of
\* the longest runs of two or more zero pieces written as "::".
Ipv6Text(p) ==
    LET RECURSIVE ToHex(_)
        ToHex(n) ==
            IF n < 16 THEN <<ToLowerChar(HexChars[n + 1])>>
            ELSE ToHex(n \div 16) \o <<ToLowerChar(HexChars[(n % 16) + 1])>>
        runs == {r \in (1..8) \X (1..8) : r[1] < r[2] /\ \A k \in r[1]..r[2] : p[k] = 0}
        hex == [k \in 1..8 |-> ToHex(p[k])]
    IN  IF runs = {} THEN JoinWith(hex, <<":">>)
        ELSE LET r == CHOOSE x \in runs : \A y \in runs :
                          \/ y[2] - y[1] < x[2] - x[1]
                          \/ y[2] - y[1] = x[2] - x[1] /\ y[1] >= x[1]
             IN  JoinWith([k \in 1..(r[1] - 1) |-> hex[k] \o <<":">>], <<>>)
                     \o (IF r[1] = 1 THEN <<":", ":">> ELSE <<":">>)
                     \o JoinWith(SubSeq(hex, r[2] + 1, 8), <<":">>)

\* The host of an IPv6 literal h, which starts with '['.
ParseIpv6(h) ==
    IF h[Len(h)] # "]" THEN Err("invalid IPv6 address")
    ELSE Bind(Ipv6Pieces(SubSeq(h, 2, Len(h) - 1)), LAMBDA pieces :
            IF pieces = None THEN Err("invalid IPv6 address")
            ELSE Some(<<"[">> \o Ipv6Text(pieces.val) \o <<"]">>))

\* Host::parse, the host of a special URL, as the set of the results it can
\* give.  The text is percent-decoded and handed to
\* idna::domain_to_ascii_cow with the URL deny list, and is then an IPv4
\* address or a domain in lower case.  A domain of ASCII characters has one
\* result: ParseError::IdnaError on a character of the deny list.  The result
\* for a character outside ASCII and for a Punycode label depends on the
\* idna back end the program is built with: an ASCII-only back end refuses
\* the first, and a build with debug assertions aborts on an upper-case
\* letter beside it; a back end with the Unicode data maps the domain or
\* refuses it.  What the mapping gives is not computed: it is some domain,
\* which can be the host of BASE_URL when the text holds a percent-decoded
\* byte that no character here stands for.
HostParse(h) ==
    IF StartsWith(h, <<"[">>) THEN {ParseIpv6(h)}
    ELSE Bind(PercentDecode(h), LAMBDA decoded :
         Bind([k \in 1..Len(decoded) |-> IdnaMap(decoded[k])], LAMBDA domain :
            LET denied == \E k \in 1..Len(domain) : domain[k] \in ForbiddenDomain
                foreign == \E k \in 1..Len(domain) :
                               domain[k] \notin Range(AsciiPrintable) \cup ForbiddenDomain
                upper == \E k \in 1..Len(decoded) : IsUpper(decoded[k])
                punycode == \E label \in Range(Split(domain, ".")) :
                                StartsWith(label, <<"x", "n", "-", "-">>)
                refused == Err("invalid international domain name")
                mapped == {<<MappedDomain>>}
                              \cup (IF \E k \in 1..Len(domain) : domain[k] = HighByte
                                    THEN {From(BaseOrigin, 9)} ELSE {})
            IN  IF foreign
                THEN {refused} \cup (IF upper THEN {Panic} ELSE {})
                         \cup (IF denied THEN {} ELSE {Some(m) : m \in mapped})
                ELSE IF denied THEN {refused}
                ELSE (IF punycode THEN {refused} ELSE {})
                         \cup {IF domain = <<>> THEN Err("empty host")
                               ELSE IF EndsInANumber(domain) THEN ParseIpv4(domain)
                               ELSE Some(domain)}))

\* Host::parse_opaque, the host of a URL that is not special: the text,
\* percent-encoded with the CONTROLS set.  The encoder's output is taken only
\* when it is an owned string, and a single encoded byte is a borrowed one:
\* a host that is one ASCII control character is kept as it is.
ParseOpaque(h) ==
    IF StartsWith(h, <<"[">>) THEN ParseIpv6(h)
    ELSE IF \E k \in 1..Len(h) : h[k] \in ForbiddenHost THEN Err("invalid domain character")
    ELSE IF Len(h) = 1 /\ h[1] \in AsciiControls THEN Some(h)
    ELSE Some(Utf8PercentEncode(h, {}))

\* parse_path_start and what follows it, on the text after the authority.
AuthorityPath(text, special) ==
    LET e == FirstIn(text, {"?", "#"})
        path == Before(text, e)
    IN  (IF special
         THEN UrlPath(<<>>, IF path # <<>> /\ path[1] \in {"/", "\\"} THEN Tail(path) ELSE path,
                      {"/", "\\"})
         ELSE IF path = <<>> THEN <<>>
         ELSE UrlPath(<<>>, IF path[1] = "/" THEN Tail(path) ELSE path, {"/"}))
            \o QueryAndFragment(From(text, e), IF special THEN SpecialQuerySet ELSE QuerySet)

\* Parser::after_double_slash: s is what follows "scheme://".  The authority
\* runs to the first '/', '?' or '#' ('\' too in a special URL); it is the
\* credentials up to its last '@', the host and, after ':', the port.  The
\* results are as many as the host's parsing has: HostUrl is the URL written
\* for one of them, or the error returned.
AfterDoubleSlash(scheme, special, s) ==
    LET e == FirstIn(s, IF special THEN {"/", "\\", "?", "#"} ELSE {"/", "?", "#"})
        rest == From(s, e)
        HostUrl(userinfo, host, has_port, port, tail) ==
            IF host.kind # "Some" THEN host
            ELSE IF host.val = <<>> /\ has_port THEN Err("empty host")
            ELSE IF has_port /\ port.kind = "Err" THEN port
            ELSE IF host.val = <<>> /\ userinfo # <<>> THEN Err("empty host")
            ELSE UrlOk(scheme \o <<":", "/", "/">> \o userinfo \o host.val
                           \o (IF has_port THEN port.val ELSE <<>>)
                           \o AuthorityPath(tail, special))
    IN  Bind(Before(s, e), LAMBDA authority :
        Bind(From(authority, LastIn(authority, {"@"}) + 1), LAMBDA hostport :
        Bind(HostEnd(hostport, 1, FALSE), LAMBDA colon :
        Bind(From(hostport, colon + 1), LAMBDA after_colon :
            IF LastIn(authority, {"@"}) = 1 /\ hostport = <<>> /\ rest # <<>>
            THEN {Err("empty host")}
            ELSE IF special /\ colon = 1 THEN {Err("empty host")}
            ELSE {HostUrl(Userinfo(Before(authority, LastIn(authority, {"@"}))),
                          host, colon <= Len(hostport),
                          ParsePort(Before(after_colon, FirstIn(after_colon, {"\\"})), scheme),
                          From(after_colon, FirstIn(after_colon, {"\\"})) \o rest) :
                      host \in (IF special THEN HostParse(Before(hostport, colon))
                                ELSE {ParseOpaque(Before(hostport, colon))})}))))

\* The number of '/' and '\' that start s.
RECURSIVE LeadingSlashes(_)
LeadingSlashes(s) ==
    IF s # <<>> /\ s[1] \in {"/", "\\"} THEN 1 + LeadingSlashes(Tail(s)) ELSE 0

\* Parser::parse_relative against BASE_URL, whose scheme is special.  Two or
\* more slashes start an authority: what follows a literal "//", or else what
\* follows all the slashes.  One slash starts a path from the root; any other
\* text is resolved against the directory of the base.
ParseRelative(s) ==
    IF s = <<>> THEN {UrlOk(BASE_URL)}
    ELSE IF s[1] \in {"?", "#"} THEN {UrlOk(BASE_URL \o QueryAndFragment(s, SpecialQuerySet))}
    ELSE IF s[1] \in {"/", "\\"}
         THEN IF LeadingSlashes(s) >= 2
              THEN AfterDoubleSlash(<<"h", "t", "t", "p", "s">>, TRUE,
                                    IF StartsWith(s, <<"/", "/">>) THEN From(s, 3)
                                    ELSE From(s, LeadingSlashes(s) + 1))
              ELSE {UrlOk(BaseOrigin \o PathQueryFragment(<<>>, Tail(s)))}
    ELSE {UrlOk(BaseOrigin \o PathQueryFragment(BaseDir, s))}

\* Parser::parse_non_special: an authority after "//", a path after "/", and
\* otherwise an opaque path.  A path that, with its dot segments resolved,
\* starts with "//" is written after "/.", so that the URL, which has no
\* host, is not read as one with an authority.
ParseNonSpecial(scheme, rest) ==
    IF StartsWith(rest, <<"/", "/">>) THEN AfterDoubleSlash(scheme, FALSE, From(rest, 3))
    ELSE LET e == FirstIn(rest, {"?", "#"})
         IN  {UrlOk(scheme \o <<":">>
                        \o (IF StartsWith(rest, <<"/">>)
                            THEN Bind(UrlPath(<<>>, SubSeq(rest, 2, e - 1), {"/"}), LAMBDA path :
                                    IF StartsWith(path, <<"/", "/">>) THEN <<"/", ".">> \o path
                                    ELSE path)
                            ELSE Utf8PercentEncode(Before(rest, e), {}))
                        \o QueryAndFragment(From(rest, e), QuerySet))}

\* Parser::parse_file for a base that is not a "file:" URL: the URL starts
\* with "file://" and the rest of it is not computed.  After two slashes
\* comes a host, which is parsed unless it is empty or a drive letter (a
\* letter and ':' or '|'), and whose error is the parser's.
ParseFile(rest) ==
    LET after == From(rest, 3)
        host_str == Before(after, FirstIn(after, {"/", "\\", "?", "#"}))
        written == UrlOk(<<"f", "i", "l", "e", ":", "/", "/", Unparsed>>)
        is_windows_drive_letter ==
            /\ Len(host_str) = 2
            /\ IsLower(host_str[1]) \/ IsUpper(host_str[1])
            /\ host_str[2] \in {":", "|"}
    IN  IF LeadingSlashes(rest) < 2 \/ host_str = <<>> \/ is_windows_drive_letter
        THEN {written}
        ELSE {IF host.kind = "Some" THEN written ELSE host : host \in HostParse(host_str)}

\* Url::join(path) on the base URL (line 185), as Parser::parse_url does it:
\* the set of the results it can give, each Ok with the URL in string form,
\* Err with the parser's error, or Panic; all but the references HostParse
\* tells of have one result.  A reference with the base's own scheme and
\* fewer than two slashes after it is relative, as one without a scheme is;
\* one with a special scheme otherwise has its host after any number of
\* slashes.
JoinUrl(path) ==
    Bind(UrlInput(path), LAMBDA s :
    Bind(ToLower(Before(s, FirstIn(s, {":"}))), LAMBDA scheme :
    Bind(From(s, FirstIn(s, {":"}) + 1), LAMBDA rest :
        IF ~HasScheme(s) \/ (scheme = <<"h", "t", "t", "p", "s">> /\ LeadingSlashes(rest) < 2)
        THEN ParseRelative(IF HasScheme(s) THEN rest ELSE s)
        ELSE IF scheme \in SpecialSchemes
             THEN AfterDoubleSlash(scheme, TRUE, From(rest, LeadingSlashes(rest) + 1))
        ELSE IF scheme = <<"f", "i", "l", "e">> THEN ParseFile(rest)
        ELSE ParseNonSpecial(scheme, rest))))

\* Display for SpecNumber (line 17) and the path of line 184.
SpecNumberDisplay(sn) == sn.series \o <<".">> \o sn.number
ListingPath(sn) ==
    sn.series \o <<"_", "s", "e", "r", "i", "e", "s", "/">> \o SpecNumberDisplay(sn)

\* Mutant: the check compares the scheme and host only.
SecurityCheckOriginOnly(u) == StartsWith(u, BaseOrigin)

\* The security check of line 189 passes.
SecurityCheck(u) == StartsWith(u, BASE_URL)

----------------------------------------------------------------------------
(* list: the rows of the listing page *)

\* str::trim (line 240).
RECURSIVE Trim(_)
Trim(s) ==
    IF s # <<>> /\ s[1] \in WhiteSpace THEN Trim(Tail(s))
    ELSE IF s # <<>> /\ s[Len(s)] \in WhiteSpace THEN Trim(SubSeq(s, 1, Len(s) - 1))
    ELSE s

DaysInMonth(y, m) ==
    CASE m \in {4, 6, 9, 11} -> 30
      [] m = 2 -> IF (y % 4 = 0 /\ y % 100 # 0) \/ y % 400 = 0 THEN 29 ELSE 28
      [] OTHER -> 31

\* str::trim_start, which chrono applies before a numeric item and for the
\* ' ' of a format.
RECURSIVE TrimStart(_)
TrimStart(s) == IF s # <<>> /\ s[1] \in WhiteSpace THEN TrimStart(Tail(s)) ELSE s

\* The length of the longest run of at most max ASCII digits that starts s.
RECURSIVE DigitRun(_, _)
DigitRun(s, max) ==
    IF max > 0 /\ s # <<>> /\ IsAsciiDigit(s[1]) THEN 1 + DigitRun(Tail(s), max - 1) ELSE 0

\* chrono's parser between two items of the format: the text still to match
\* and the numbers read so far; NoScan once an item did not match.
Scan(rest, vals) == [ok |-> TRUE, rest |-> rest, vals |-> vals]
NoScan == [ok |-> FALSE, rest |-> <<>>, vals |-> <<>>]

\* Years a NaiveDate can hold.
Years == (0 - 262143)..262142

\* scan::number(text, 1, max): one to max ASCII digits, taken greedily, read
\* as a number of the given sign.  A number of ten or more significant digits
\* is recorded as one past every year.
ScanDigits(st, text, max, sign) ==
    LET n == DigitRun(text, max)
        digits == StripZeros(SubSeq(text, 1, n))
    IN  IF n = 0 THEN NoScan
        ELSE Scan(From(text, n + 1),
                  Append(st.vals, IF Len(digits) > 9 THEN sign * 1000000000
                                  ELSE sign * DecimalValue(digits)))

\* An unsigned numeric item (%m, %d, %-H, %M): white space, then 1-2 digits.
ScanField(st) == IF st.ok THEN ScanDigits(st, TrimStart(st.rest), 2, 1) ELSE NoScan

\* The numeric item %Y: white space, then either a sign and any number of
\* digits or, without a sign, 1-4 digits.
ScanYear(st) ==
    LET t == TrimStart(st.rest)
    IN  IF ~st.ok THEN NoScan
        ELSE IF t # <<>> /\ t[1] \in {"+", "-"}
             THEN ScanDigits(st, Tail(t), Len(t), IF t[1] = "-" THEN 0 - 1 ELSE 1)
        ELSE ScanDigits(st, t, 4, 1)

\* A literal of the format: the next character is c.
ScanLiteral(st, c) ==
    IF st.ok /\ st.rest # <<>> /\ st.rest[1] = c THEN Scan(Tail(st.rest), st.vals) ELSE NoScan

\* The ' ' of the format: any run of white space, the empty one included.
ScanSpace(st) == IF st.ok THEN Scan(TrimStart(st.rest), st.vals) ELSE NoScan

\* The end of the format: nothing may be left of the text, and the numbers
\* read must form a date and a time of day.
ScannedDate(st) ==
    IF ~st.ok \/ st.rest # <<>> THEN None
    ELSE IF /\ st.vals[1] \in Years
            /\ st.vals[2] \in 1..12
            /\ st.vals[3] \in 1..DaysInMonth(st.vals[1], st.vals[2])
            /\ st.vals[4] \in 0..23
            /\ st.vals[5] \in 0..59
         THEN Some([year |-> st.vals[1], month |-> st.vals[2], day |-> st.vals[3],
                    hour |-> st.vals[4], minute |-> st.vals[5]])
         ELSE None

\* NaiveDateTime::parse_from_str(date_str, "%Y/%m/%d %-H:%M") (line 242): the
\* items of the format are matched left to right, each on what the one before
\* left of the text.
ParseDate(s) ==
    ScannedDate(
        ScanField(ScanLiteral(ScanField(ScanSpace(
            ScanField(ScanLiteral(ScanField(ScanLiteral(ScanYear(Scan(s, <<>>)), "/")), "/")))),
            ":")))

Max(a, b) == IF a >= b THEN a ELSE b
Continue == [kind |-> "Continue"]
Push(item) == [kind |-> "Push", item |-> item]
SpecItem(version, date, u) == [version |-> version, date |-> date, url |-> u]

\* Mutant: the todo!() of line 258 is gone, so lines 259-265 run.
RowStepWithoutTodo(cells, n, d, rel, df) ==
    IF Len(cells) <= Max(n, d) THEN Continue
    ELSE LET anchor == cells[n + 1].link
             date == ParseDate(Trim(cells[d + 1].text))
         IN  IF anchor.kind = "None" THEN Continue
             ELSE IF date.kind = "None" THEN Continue
             ELSE LET version == parse_version(anchor.val.text)
                  IN  IF version.kind = "None" THEN Continue
                      ELSE IF rel.kind = "Some" /\ version.val.major # rel.val THEN Continue
                      ELSE IF df.kind = "Some" /\ (date.val.year # df.val.year
                                                   \/ date.val.month # df.val.month)
                           THEN Continue
                      ELSE Push(SpecItem(version.val, date.val, anchor.val.href))

\* Mutant: a date that fails to parse is propagated as an error.
RowStepDateAborts(cells, n, d, rel, df) ==
    IF Len(cells) <= Max(n, d) THEN Continue
    ELSE LET anchor == cells[n + 1].link
             date == ParseDate(Trim(cells[d + 1].text))
         IN  IF anchor.kind = "None" THEN Continue
             ELSE IF date.kind = "None" THEN Err("invalid date")
             ELSE LET version == parse_version(anchor.val.text)
                  IN  IF version.kind = "None" THEN Continue
                      ELSE IF rel.kind = "Some" /\ version.val.major # rel.val THEN Continue
                      ELSE Panic

\* The body of the loop of lines 222-266 on one row: cells are the row's td
\* elements, n and d the 0-based column indexes, rel and df the Options
\* release and date_filter.  A row that passes the release filter reaches the
\* todo!() of line 258, which panics; lines 259-265 are never executed.
RowStep(cells, n, d, rel, df) ==
    IF Len(cells) <= Max(n, d) THEN Continue
    ELSE LET anchor == cells[n + 1].link
             date == ParseDate(Trim(cells[d + 1].text))
         IN  IF anchor.kind = "None" THEN Continue
             ELSE IF date.kind = "None" THEN Continue
             ELSE LET version == parse_version(anchor.val.text)
                  IN  IF version.kind = "None" THEN Continue
                      ELSE IF rel.kind = "Some" /\ version.val.major # rel.val THEN Continue
                      ELSE Panic

----------------------------------------------------------------------------
(* list as a state machine *)

MaxRows == 2         \* most body rows of a listing page

\* Arguments: a spec number as parse_spec_number returns it, and SpecNumber
\* values built from the public fields: references that name the base's
\* scheme, climb out of the archive with "..", '\' or "%2e", start from the
\* root, name another host or scheme, do not parse as a URL, or have a host
\* outside ASCII, an IPv6 literal or the "file:" scheme.
SpecNumbers ==
    {[series |-> <<"2", "3">>, number |-> <<"5", "0", "1">>],
     [series |-> <<"h", "t", "t", "p", "s", ":">>, number |-> <<"1">>],
     [series |-> <<".", ".", "/", ".", ".">>, number |-> <<"1">>],
     [series |-> <<".", ".", "\\", ".", ".">>, number |-> <<"1">>],
     [series |-> <<"x">>, number |-> <<"/", "%", "2", "e", "%", "2", "E", "/", ".", "%", "2", "e", "/",
                                       "%", "2", "E", ".", "/", "y">>],
     [series |-> <<"/", "x">>, number |-> <<"1">>],
     [series |-> <<"/", "/", "h">>, number |-> <<"1">>],
     [series |-> <<"a", ":">>, number |-> <<"1">>],
     [series |-> <<"/", "/", ":">>, number |-> <<"1">>],
     [series |-> <<"/", "/", "h", ":", "x">>, number |-> <<"1">>],
     [series |-> <<"/", "/", "A", "U+00E9">>, number |-> <<"1">>],
     [series |-> <<"/", "/", "[", ":", ":", "1", "]">>, number |-> <<"1">>],
     [series |-> <<"f", "i", "l", "e", ":">>, number |-> <<"1">>]}
Releases == {None, Some(17)}
DateFilters == {None, Some([year |-> 2023, month |-> 7]), Some([year |-> 2024, month |-> 1])}

\* HTTP statuses the server may answer with; is_success is 200..=299.
Statuses == {200, 404, 500}
IsSuccess(code) == code \in 200..299

TextCell(t) == [text |-> t, link |-> None]
LinkCell(href, t) == [text |-> t, link |-> Some([href |-> href, text |-> t])]
Blank == TextCell(<<>>)

NameH10 == <<"2", "3", "5", "0", "1", "-", "h", "1", "0", ".", "z", "i", "p">>
NameDecimal == <<"2", "3", "5", "0", "1", "-", "0", "5", "0", "1", "0", "0", ".", "z", "i", "p">>
NameReadme == <<"r", "e", "a", "d", "m", "e", ".", "t", "x", "t">>
DateJuly == <<"2", "0", "2", "3", "/", "0", "7", "/", "1", "5", " ", "9", ":", "3", "0">>
\* A date cell as the page lays it out: white space around the text, and a
\* line break between the day and the hour.
DateJanuary == <<"\t", "2", "0", "2", "4", "/", "0", "1", "/", "0", "2", "\n", "1", "0", ":", "0", "5", "U+00A0", " ">>
DateBad == <<"2", "0", "2", "3", "/", "0", "2", "/", "3", "0", " ", "9", ":", "3", "0">>

\* Body rows, as sequences of td cells.
Rows ==
    {<<Blank, Blank, LinkCell("u/23501-h10.zip", NameH10), TextCell(DateJuly)>>,
     <<Blank, Blank, LinkCell("u/23501-050100.zip", NameDecimal), TextCell(DateJanuary)>>,
     <<Blank, Blank, LinkCell("u/23501-h10.zip", NameH10)>>,
     <<Blank, Blank, TextCell(NameH10), TextCell(DateJuly)>>,
     <<Blank, Blank, LinkCell("u/23501-h10.zip", NameH10), TextCell(DateBad)>>,
     <<Blank, Blank, LinkCell("u/readme.txt", NameReadme), TextCell(DateJuly)>>,
     <<TextCell(DateJanuary), LinkCell("u/23501-h10.zip", NameH10)>>}
\* Header rows, as the texts of the th cells.
Headers ==
    {<<<<>>, <<>>, SortByName, SortByDate, SortBySize>>,
     <<SortByDate, SortByName>>,
     <<<<>>, <<>>, SortByName, SortBySize>>}
Pages == {[header |-> h, rows |-> r] : h \in Headers, r \in StringsOver(Rows, 0, MaxRows)}

PureIdle == op = "none" /\ input = <<>> /\ result = Pending /\ ver_str = None

Init ==
    /\ pc = "build_url"
    /\ spec_number \in SpecNumbers
    /\ release \in Releases
    /\ date_filter \in DateFilters
    /\ url = None /\ fetches = 0 /\ response = None /\ body = None
    /\ name_idx = 0 /\ date_idx = 0 /\ row = 0 /\ specs = <<>> /\ outcome = Pending
    /\ PureIdle

Return(value) == pc' = "done" /\ outcome' = value

\* Lines 182-194: build the URL and run the security check.  url keeps what
\* the join gave: the URL, its error, or the abort inside it.
BuildUrl ==
    /\ pc = "build_url"
    /\ \E joined \in JoinUrl(ListingPath(spec_number)) :
        CASE joined.kind = "Panic" -> url' = joined /\ Return(Panic)
          [] joined.kind = "Err" ->
                url' = joined /\ Return(Err("failed to join path to BASE_URL"))
          [] OTHER ->
                /\ url' = Some(joined.url)
                /\ IF SecurityCheck(joined.url)
                   THEN pc' = "fetch" /\ UNCHANGED outcome
                   ELSE Return(Err("security check failed"))
    /\ UNCHANGED <<spec_number, release, date_filter, fetches, response, body,
                   name_idx, date_idx, row, specs>>
    /\ UNCHANGED pureVars

\* Lines 196-197: reqwest::blocking::get fails.
FetchFails ==
    /\ pc = "fetch"
    /\ fetches' = fetches + 1
    /\ response' = Err("request failed")
    /\ Return(Err("failed to fetch URL"))
    /\ UNCHANGED <<spec_number, release, date_filter, url, body, name_idx, date_idx,
                   row, specs>>
    /\ UNCHANGED pureVars

\* Lines 196-205: reqwest::blocking::get returns a response; a status that is
\* not a success is an error.
FetchResponds ==
    /\ pc = "fetch"
    /\ fetches' = fetches + 1
    /\ \E code \in Statuses :
        /\ response' = Some(code)
        /\ IF IsSuccess(code)
           THEN pc' = "read_body" /\ UNCHANGED outcome
           ELSE Return(Err("failed to fetch URL: status code"))
    /\ UNCHANGED <<spec_number, release, date_filter, url, body, name_idx, date_idx,
                   row, specs>>
    /\ UNCHANGED pureVars

\* Lines 207-209: reading the body fails.
ReadBodyFails ==
    /\ pc = "read_body"
    /\ Return(Err("failed to read response body"))
    /\ UNCHANGED <<spec_number, release, date_filter, url, fetches, response, body,
                   name_idx, date_idx, row, specs>>
    /\ UNCHANGED pureVars

\* Lines 207-212: the body is read and parsed, and the header is located.
ReadBody ==
    /\ pc = "read_body"
    /\ \E p \in Pages :
        /\ body' = Some(p)
        /\ LET found == find_header_indexes(p.header)
           IN  IF found.kind = "Err"
               THEN Return(found) /\ UNCHANGED <<name_idx, date_idx, row>>
               ELSE /\ name_idx' = found.name
                    /\ date_idx' = found.date
                    /\ row' = 1
                    /\ pc' = "rows"
                    /\ UNCHANGED outcome
    /\ UNCHANGED <<spec_number, release, date_filter, url, fetches, response, specs>>
    /\ UNCHANGED pureVars

\* Lines 222-266: one iteration of the loop over "tbody > tr".
ProcessRow ==
    /\ pc = "rows"
    /\ row <= Len(body.val.rows)
    /\ LET step == RowStep(body.val.rows[row], name_idx, date_idx, release, date_filter)
       IN  CASE step.kind = "Continue" ->
                    row' = row + 1 /\ UNCHANGED <<pc, specs, outcome>>
             [] step.kind = "Push" ->
                    /\ specs' = Append(specs, step.item)
                    /\ row' = row + 1
                    /\ UNCHANGED <<pc, outcome>>
             [] OTHER -> Return(step) /\ UNCHANGED <<row, specs>>
    /\ UNCHANGED <<spec_number, release, date_filter, url, fetches, response, body,
                   name_idx, date_idx>>
    /\ UNCHANGED pureVars

\* Line 268: the loop is over.
ReturnSpecs ==
    /\ pc = "rows"
    /\ row > Len(body.val.rows)
    /\ Return([kind |-> "Ok", specs |-> specs])
    /\ UNCHANGED <<spec_number, release, date_filter, url, fetches, response, body,
                   name_idx, date_idx, row, specs>>
    /\ UNCHANGED pureVars

Next ==
    \/ BuildUrl
    \/ FetchFails
    \/ FetchResponds
    \/ ReadBodyFails
    \/ ReadBody
    \/ ProcessRow
    \/ ReturnSpecs

Spec == Init /\ [][Next]_vars

----------------------------------------------------------------------------
(* Claims about list, checked under Spec *)

\* The row has a link in the name cell, a parseable date and a parseable
\* version, and passes the release filter.
RowMatches(cells, n, d, rel) ==
    /\ Len(cells) > Max(n, d)
    /\ cells[n + 1].link.kind = "Some"
    /\ ParseDate(Trim(cells[d + 1].text)).kind = "Some"
    /\ parse_version(cells[n + 1].link.val.text).kind = "Some"
    /\ rel.kind = "Some" => parse_version(cells[n + 1].link.val.text).val.major = rel.val
ItemOf(cells, n, d) ==
    SpecItem(parse_version(cells[n + 1].link.val.text).val,
             ParseDate(Trim(cells[d + 1].text)).val, cells[n + 1].link.val.href)
RECURSIVE MatchingItems(_, _, _, _)
MatchingItems(rows, n, d, rel) ==
    IF rows = <<>> THEN <<>>
    ELSE (IF RowMatches(Head(rows), n, d, rel) THEN <<ItemOf(Head(rows), n, d)>> ELSE <<>>)
         \o MatchingItems(Tail(rows), n, d, rel)

\* C1: for a fetched page whose header has a name and a date column, list
\* without a date filter returns Ok with exactly the items of the rows that
\* have a link, a parseable date and version and pass the release filter, in
\* document order.
C1_ListReturnsMatchingRows ==
    (/\ pc = "done"
     /\ body.kind = "Some"
     /\ find_header_indexes(body.val.header).kind = "Ok"
     /\ date_filter = None) =>
        outcome = [kind |-> "Ok",
                   specs |-> MatchingItems(body.val.rows, name_idx, date_idx, release)]

\* The row has too few cells, no link in its name cell, a date that does not
\* parse or a file name without a Version.
RowMalformed(cells, n, d) ==
    \/ Len(cells) <= Max(n, d)
    \/ cells[n + 1].link.kind = "None"
    \/ ParseDate(Trim(cells[d + 1].text)).kind = "None"
    \/ parse_version(cells[n + 1].link.val.text).kind = "None"

AtRow == pc = "rows" /\ row <= Len(body.val.rows)

\* C2: a malformed row is skipped: processing it neither returns nor aborts,
\* adds nothing to the result and moves on to the next row.
C2_MalformedRowSkipped ==
    [][(AtRow /\ RowMalformed(body.val.rows[row], name_idx, date_idx)) =>
            (pc' = "rows" /\ row' = row + 1 /\ specs' = specs /\ outcome' = Pending)]_vars

\* A row whose date does not parse has been passed and the loop is at the
\* row after it.
C2_Witness ==
    /\ pc = "rows"
    /\ row = 2
    /\ Len(body.val.rows[1]) > Max(name_idx, date_idx)
    /\ body.val.rows[1][date_idx + 1].text = DateBad
    /\ body.val.rows[1][name_idx + 1].link.kind = "Some"
    /\ outcome = Pending

\* What a finished call returned, written without the date filter: from what
\* the join gave, the response, the page and the release alone.
OutcomeWithoutDateFilter ==
    IF url.kind = "Panic" THEN Panic
    ELSE IF url.kind = "Err" THEN Err("failed to join path to BASE_URL")
    ELSE IF ~StartsWith(url.val, BASE_URL) THEN Err("security check failed")
    ELSE IF response.kind = "Err" THEN Err("failed to fetch URL")
    ELSE IF response.val \notin 200..299 THEN Err("failed to fetch URL: status code")
    ELSE IF body.kind = "None" THEN Err("failed to read response body")
    ELSE LET found == find_header_indexes(body.val.header)
             rows == body.val.rows
         IN  IF found.kind = "Err" THEN found
             ELSE IF \E k \in 1..Len(rows) : RowMatches(rows[k], found.name, found.date, release)
                  THEN Panic
                  ELSE [kind |-> "Ok", specs |-> <<>>]

\* C3: the date filter never takes effect: at every row the loop reaches,
\* the step taken (skip, abort or collect) is the same for every value of the
\* date filter, the absent one included, and what the call returns is fixed
\* by its other arguments and the server's answers.
C3_DateFilterWithoutEffect ==
    /\ AtRow => \A df \in DateFilters :
                RowStep(body.val.rows[row], name_idx, date_idx, release, df)
                    = RowStep(body.val.rows[row], name_idx, date_idx, release, date_filter)
    /\ pc = "done" => outcome = OutcomeWithoutDateFilter

\* A row dated July 2023 was reached under the filter 2024-01 and the call
\* aborted at the todo!() ahead of the date filter.
C3_Witness ==
    /\ pc = "done"
    /\ outcome = Panic
    /\ date_filter = Some([year |-> 2024, month |-> 1])
    /\ body.kind = "Some"
    /\ body.val.rows[row][date_idx + 1].text = DateJuly

\* C9: at most one fetch is issued, and only with a URL that begins with the
\* base URL; when the check fails, the fetch fails or the status is not a
\* success, list returns Err with no further fetch and no row processed; and
\* when the join gives no URL, the call ends there, with no fetch and no row.
C9_SingleGuardedFetch ==
    /\ fetches <= 1
    /\ fetches = 1 => (url.kind = "Some" /\ StartsWith(url.val, BASE_URL))
    /\ (url.kind = "Some" /\ ~StartsWith(url.val, BASE_URL)) =>
            (pc = "done" /\ outcome.kind = "Err" /\ fetches = 0 /\ row = 0)
    /\ url.kind \in {"Err", "Panic"} =>
            (pc = "done" /\ outcome.kind = url.kind /\ fetches = 0 /\ row = 0)
    /\ (response.kind = "Err" \/ (response.kind = "Some" /\ response.val \notin 200..299)) =>
            (pc = "done" /\ outcome.kind = "Err" /\ fetches = 1 /\ row = 0)

\* The one fetch was answered 404 and list returned Err before any row.
C9_Witness ==
    /\ pc = "done"
    /\ fetches = 1
    /\ response = Some(404)
    /\ outcome.kind = "Err"
    /\ row = 0

====
